---- MODULE Spec2Model ----
(***************************************************************************)
(* Model of the instruction generation and text synchronisation engine of  *)
(* the pharmacist portal (pages/AddMedicationPage.tsx), together with the  *)
(* vocabulary lookup it calls (utils/backendTranslationUtils.ts and        *)
(* backend/routes/translations.js).                                        *)
(*                                                                         *)
(* A JavaScript string is modelled as a sequence of tokens.  A token is a  *)
(* word, a glyph, or one of the separator characters.  The line feed, the  *)
(* blank, the period and the comma are tokens of their own, so that        *)
(* split('\n'), trim(), indexOf('.') and split(',') are computed on the    *)
(* text as the code computes them.                                         *)
(***************************************************************************)
EXTENDS Integers, Sequences, FiniteSets, TLC

\* ------------------------------------------------------------------------
\* Tokens
\* ------------------------------------------------------------------------
NL == "\n"
SP == " "
DOT == "."
COMMA == ","
\* the info glyph that starts the dosage sentence
INFO == "(i)"
\* the clock glyph that starts the time-of-day line
CLOCK == "(clock)"
\* the bullet glyph that starts a precaution line
BULLET == "(*)"
\* the emoji that formatTimeOfDay appends to a period name
SUNRISE == "(sunrise)"
SUN == "(sun)"
CITY == "(city)"
NIGHTSKY == "(nightsky)"

Placeholder == <<"This will have the translated instructions">>
LoadingText == <<"Loading...">>
ErrorText == <<"Translation error - showing English version">>

\* tokens that are not made of word characters (for the regex \b)
NonWord == {NL, SP, DOT, COMMA, INFO, CLOCK, BULLET, SUNRISE, SUN, CITY, NIGHTSKY}

IsWord(t) == t \notin NonWord

\* String.prototype.toLowerCase on one token: the tokens of the texts below
\* that have a capital
Lower(t) ==
  CASE t = "Take" -> "take"
    [] t = "Thatha" -> "thatha"
    [] t = "Thabatha" -> "thabatha"
    [] t = "Vat" -> "vat"
    [] t = "Precautions" -> "precautions"
    [] t = "Ukuqaphela" -> "ukuqaphela"
    [] t = "Ukulumkela" -> "ukulumkela"
    [] t = "Voorsorgmaatreels" -> "voorsorgmaatreels"
    [] t = "precautionsHeader" -> "precautionsheader"
    [] t = "Daily" -> "daily"
    [] t = "Daagliks" -> "daagliks"
    [] t = "Yonke" -> "yonke"
    [] t = "Nsuku" -> "nsuku"
    [] t = "Twice" -> "twice"
    [] t = "Twee" -> "twee"
    [] t = "Kabini" -> "kabini"
    [] t = "Kabili" -> "kabili"
    [] t = "Three" -> "three"
    [] t = "Once" -> "once"
    [] t = "Every" -> "every"
    [] t = "Elke" -> "elke"
    [] t = "Rhoqo" -> "rhoqo"
    [] t = "Njalo" -> "njalo"
    [] t = "Morning" -> "morning"
    [] t = "Afternoon" -> "afternoon"
    [] t = "Evening" -> "evening"
    [] t = "Night" -> "night"
    [] t = "Noon" -> "noon"
    [] t = "Oggend" -> "oggend"
    [] t = "Kusasa" -> "kusasa"
    [] t = "Ekuseni" -> "ekuseni"
    [] t = "Nag" -> "nag"
    [] t = "Ebusuku" -> "ebusuku"
    [] t = "Avoid" -> "avoid"
    [] t = "Vermy" -> "vermy"
    [] t = "Phepha" -> "phepha"
    [] t = "Gwema" -> "gwema"
    [] t = "Panado" -> "panado"
    [] t = "Note" -> "note"
    [] t = "Medication" -> "medication"
    [] OTHER -> t

\* charAt(0).toUpperCase() + slice(1) on one token
Capitalize(t) ==
  CASE t = "take" -> "Take"
    [] t = "vat" -> "Vat"
    [] t = "thabatha" -> "Thabatha"
    [] t = "thatha" -> "Thatha"
    [] t = "morning" -> "Morning"
    [] t = "afternoon" -> "Afternoon"
    [] t = "evening" -> "Evening"
    [] t = "night" -> "Night"
    [] t = "noon" -> "Noon"
    [] OTHER -> t

LowerText(s) == [i \in 1..Len(s) |-> Lower(s[i])]

\* ------------------------------------------------------------------------
\* String helpers
\* ------------------------------------------------------------------------
StartsWith(s, p) == Len(p) <= Len(s) /\ SubSeq(s, 1, Len(p)) = p

EndsWith(s, p) == Len(p) <= Len(s) /\ SubSeq(s, Len(s) - Len(p) + 1, Len(s)) = p

\* does p occur in s at position i
OccursAt(s, p, i) == i >= 1 /\ i + Len(p) - 1 <= Len(s) /\ SubSeq(s, i, i + Len(p) - 1) = p

\* String.prototype.indexOf, 1-based; 0 when absent
IndexOf(s, p) ==
  IF \E i \in 1..Len(s) : OccursAt(s, p, i)
    THEN CHOOSE i \in 1..Len(s) : OccursAt(s, p, i) /\ \A j \in 1..(i - 1) : ~OccursAt(s, p, j)
    ELSE 0

\* String.prototype.trimStart / trim
RECURSIVE TrimStart(_)
TrimStart(s) == IF s # <<>> /\ Head(s) = SP THEN TrimStart(Tail(s)) ELSE s

RECURSIVE TrimEnd(_)
TrimEnd(s) == IF s # <<>> /\ s[Len(s)] = SP THEN TrimEnd(SubSeq(s, 1, Len(s) - 1)) ELSE s

Trim(s) == TrimEnd(TrimStart(s))

\* String.prototype.split(sep) for a one-token separator
RECURSIVE Split(_, _)
Split(s, sep) ==
  LET i == IndexOf(s, <<sep>>)
  IN IF i = 0 THEN <<s>>
     ELSE <<SubSeq(s, 1, i - 1)>> \o Split(SubSeq(s, i + 1, Len(s)), sep)

\* Array.prototype.join('\n')
RECURSIVE JoinLines(_)
JoinLines(ls) ==
  IF ls = <<>> THEN <<>>
  ELSE IF Len(ls) = 1 THEN ls[1]
  ELSE ls[1] \o <<NL>> \o JoinLines(Tail(ls))

\* String.prototype.replace(pattern: string, replacement): first occurrence
ReplaceFirst(s, p, r) ==
  LET i == IndexOf(s, p)
  IN IF p = <<>> THEN r \o s
     ELSE IF i = 0 THEN s
     ELSE SubSeq(s, 1, i - 1) \o r \o SubSeq(s, i + Len(p), Len(s))

\* number of (non-overlapping, left to right) occurrences of p in s
RECURSIVE CountOcc(_, _)
CountOcc(s, p) ==
  LET i == IndexOf(s, p)
  IN IF p = <<>> \/ i = 0 THEN 0
     ELSE 1 + CountOcc(SubSeq(s, i + Len(p), Len(s)), p)

\* ------------------------------------------------------------------------
\* InstructionStructure, parser and reassembly
\* ------------------------------------------------------------------------
EmptySections ==
  [medicationName |-> <<>>, dosageLine |-> <<>>, dosageLineUserContent |-> <<>>,
   timeOfDay |-> <<>>, precautionsHeader |-> <<>>, precautionsList |-> <<>>]

EmptyUserContent ==
  [beforeMedication |-> <<>>, afterMedication |-> <<>>, afterDosage |-> <<>>,
   afterTimeOfDay |-> <<>>, afterPrecautions |-> <<>>]

EmptyStructure ==
  [sections |-> EmptySections, userContent |-> EmptyUserContent,
   lastGenerated |-> [english |-> <<>>, translated |-> <<>>]]

\* /^(precautions|voorsorgmaatreels|ukulumkela|ukuqaphela)$/i
HeaderSpellings == {"precautions", "voorsorgmaatreels", "ukulumkela", "ukuqaphela"}

IsHeaderLine(trimmedLine) == Len(trimmedLine) = 1 /\ Lower(trimmedLine[1]) \in HeaderSpellings

\* slot += (slot ? '\n' : '') + line
AppendLine(slot, line) == IF slot = <<>> THEN line ELSE slot \o <<NL>> \o line

\* the body of lines.forEach in parseInstructionContent: st is the record of
\* the local variables structure, currentSection, medicationNameFound and
\* precautionsStarted
ParseLine(st, line) ==
  LET trimmedLine == Trim(line)
      sec == st.structure.sections
      uc == st.structure.userContent
      asUser ==
        IF st.currentSection = "beforeMedication"
          THEN [st EXCEPT !.structure.userContent.beforeMedication = AppendLine(uc.beforeMedication, line)]
        ELSE IF st.currentSection = "afterMedication"
          THEN [st EXCEPT !.structure.userContent.afterMedication = AppendLine(uc.afterMedication, line)]
        ELSE IF st.currentSection = "afterDosage"
          THEN [st EXCEPT !.structure.userContent.afterDosage = AppendLine(uc.afterDosage, line)]
        ELSE IF st.currentSection = "afterTimeOfDay"
          THEN [st EXCEPT !.structure.userContent.afterTimeOfDay = AppendLine(uc.afterTimeOfDay, line)]
        ELSE IF st.precautionsStarted
          THEN [st EXCEPT !.structure.userContent.afterPrecautions = AppendLine(uc.afterPrecautions, line)]
        ELSE st
  IN IF trimmedLine # <<>> /\ ~st.medicationNameFound /\ st.currentSection = "beforeMedication"
       THEN [st EXCEPT !.structure.sections.medicationName = trimmedLine,
                       !.medicationNameFound = TRUE,
                       !.currentSection = "afterMedication"]
     ELSE IF trimmedLine # <<>> /\ StartsWith(trimmedLine, <<INFO>>)
       THEN LET periodIndex == IndexOf(trimmedLine, <<DOT>>)
                afterPeriod == TrimStart(SubSeq(trimmedLine, periodIndex + 1, Len(trimmedLine)))
            IN IF periodIndex # 0
                 THEN [st EXCEPT !.structure.sections.dosageLine = SubSeq(trimmedLine, 1, periodIndex),
                                 !.structure.sections.dosageLineUserContent =
                                    IF afterPeriod # <<>> THEN afterPeriod ELSE sec.dosageLineUserContent,
                                 !.currentSection = "afterDosage"]
                 ELSE [st EXCEPT !.structure.sections.dosageLine = trimmedLine,
                                 !.currentSection = "afterDosage"]
     ELSE IF trimmedLine # <<>> /\ StartsWith(trimmedLine, <<CLOCK>>)
       THEN [st EXCEPT !.structure.sections.timeOfDay = trimmedLine,
                       !.currentSection = "afterTimeOfDay"]
     ELSE IF trimmedLine # <<>> /\ IsHeaderLine(trimmedLine)
       THEN [st EXCEPT !.structure.sections.precautionsHeader = trimmedLine,
                       !.precautionsStarted = TRUE,
                       !.currentSection = "precautions"]
     ELSE IF trimmedLine # <<>> /\ st.precautionsStarted /\ StartsWith(trimmedLine, <<BULLET>>)
       THEN [st EXCEPT !.structure.sections.precautionsList = Append(sec.precautionsList, trimmedLine)]
     ELSE asUser

RECURSIVE ParseLines(_, _)
ParseLines(st, lines) ==
  IF lines = <<>> THEN st ELSE ParseLines(ParseLine(st, Head(lines)), Tail(lines))

parseInstructionContent(content) ==
  ParseLines([structure |-> EmptyStructure, currentSection |-> "beforeMedication",
              medicationNameFound |-> FALSE, precautionsStarted |-> FALSE],
             Split(content, NL)).structure

\* precautionsList.forEach(precaution => content += precaution + '\n')
RECURSIVE ConcatWithNL(_)
ConcatWithNL(ls) == IF ls = <<>> THEN <<>> ELSE Head(ls) \o <<NL>> \o ConcatWithNL(Tail(ls))

\* the condition that guards the precautions block of reconstructInstructionContent
HasPrecautions(structure) ==
  structure.sections.precautionsHeader # <<>> \/ Len(structure.sections.precautionsList) > 0

\* the blocks of reconstructInstructionContent in their order; each appends
\* to the content built so far
AddBeforeMedication(content, structure) ==
  IF structure.userContent.beforeMedication # <<>>
    THEN content \o structure.userContent.beforeMedication \o
         (IF ~EndsWith(structure.userContent.beforeMedication, <<NL>>) /\ structure.sections.medicationName # <<>>
            THEN <<NL>> ELSE <<>>)
    ELSE content

AddMedicationName(content, structure) ==
  IF structure.sections.medicationName # <<>>
    THEN content \o structure.sections.medicationName \o
         (IF structure.userContent.afterMedication # <<>> \/ structure.sections.dosageLine # <<>>
            THEN <<NL>> ELSE <<>>)
    ELSE content

AddAfterMedication(content, structure) ==
  IF structure.userContent.afterMedication # <<>>
    THEN content \o structure.userContent.afterMedication \o
         (IF ~EndsWith(structure.userContent.afterMedication, <<NL>>) /\ structure.sections.dosageLine # <<>>
            THEN <<NL>> ELSE <<>>)
    ELSE content

AddDosageLine(content, structure) ==
  IF structure.sections.dosageLine # <<>>
    THEN content \o structure.sections.dosageLine \o
         (IF structure.sections.dosageLineUserContent # <<>>
            THEN <<SP>> \o structure.sections.dosageLineUserContent ELSE <<>>) \o
         (IF structure.userContent.afterDosage # <<>> \/ structure.sections.timeOfDay # <<>>
            THEN <<NL>> ELSE <<>>)
    ELSE content

AddAfterDosage(content, structure) ==
  IF structure.userContent.afterDosage # <<>>
    THEN content \o structure.userContent.afterDosage \o
         (IF ~EndsWith(structure.userContent.afterDosage, <<NL>>) /\ structure.sections.timeOfDay # <<>>
            THEN <<NL>> ELSE <<>>)
    ELSE content

AddTimeOfDay(content, structure) ==
  IF structure.sections.timeOfDay # <<>>
    THEN content \o structure.sections.timeOfDay \o
         (IF structure.userContent.afterTimeOfDay # <<>> \/ HasPrecautions(structure) THEN <<NL>> ELSE <<>>)
    ELSE content

AddAfterTimeOfDay(content, structure) ==
  IF structure.userContent.afterTimeOfDay # <<>>
    THEN content \o structure.userContent.afterTimeOfDay \o
         (IF ~EndsWith(structure.userContent.afterTimeOfDay, <<NL>>) /\ HasPrecautions(structure)
            THEN <<NL>> ELSE <<>>)
    ELSE content

AddPrecautions(content, structure) ==
  IF HasPrecautions(structure)
    THEN content \o (IF content # <<>> /\ ~EndsWith(content, <<NL, NL>>) THEN <<NL>> ELSE <<>>) \o
         (IF structure.sections.precautionsHeader # <<>>
            THEN structure.sections.precautionsHeader \o <<NL>> ELSE <<>>) \o
         ConcatWithNL(structure.sections.precautionsList)
    ELSE content

AddAfterPrecautions(content, structure) ==
  IF structure.userContent.afterPrecautions # <<>>
    THEN content \o structure.userContent.afterPrecautions
    ELSE content

reconstructInstructionContent(structure) ==
  AddAfterPrecautions(
    AddPrecautions(
      AddAfterTimeOfDay(
        AddTimeOfDay(
          AddAfterDosage(
            AddDosageLine(
              AddAfterMedication(
                AddMedicationName(
                  AddBeforeMedication(<<>>, structure), structure), structure), structure),
            structure), structure), structure), structure), structure)

\* ------------------------------------------------------------------------
\* Vocabulary lookup: backend/routes/translations.js
\* ------------------------------------------------------------------------
\* the rows of the vocabulary tables (english, afrikaans, isiXhosa, isiZulu),
\* keyed by the table name getCsvData reads
CsvData ==
  [Dosage |-> << [english |-> <<"1", SP, "tablet">>, afrikaans |-> <<"1", SP, "pil">>,
                  isiXhosa |-> <<"1", SP, "ipilisi">>, isiZulu |-> <<"1", SP, "iphilisi">>] >>,
   Frequency |-> << [english |-> <<"Daily">>, afrikaans |-> <<"Daagliks">>,
                     isiXhosa |-> <<"Yonke", SP, "imihla">>, isiZulu |-> <<"Nsuku", SP, "zonke">>],
                    [english |-> <<"Twice", SP, "daily">>, afrikaans |-> <<"Twee", SP, "keer">>,
                     isiXhosa |-> <<"Kabini">>, isiZulu |-> <<"Kabili">>] >>,
   Intervals |-> << [english |-> <<"Every", SP, "8", SP, "hours">>, afrikaans |-> <<"Elke", SP, "8", SP, "uur">>,
                     isiXhosa |-> <<"Rhoqo", SP, "8", SP, "iiyure">>,
                     isiZulu |-> <<"Njalo", SP, "8", SP, "amahora">>] >>,
   Time_of_Day |-> << [english |-> <<"Morning">>, afrikaans |-> <<"Oggend">>,
                       isiXhosa |-> <<"Kusasa">>, isiZulu |-> <<"Ekuseni">>],
                      [english |-> <<"Night">>, afrikaans |-> <<"Nag">>,
                       isiXhosa |-> <<"Ebusuku">>, isiZulu |-> <<"Ebusuku">>] >>,
   Precautions |-> << [english |-> <<"Avoid", SP, "alcohol">>, afrikaans |-> <<"Vermy", SP, "alkohol">>,
                       isiXhosa |-> <<"Phepha", SP, "utywala">>, isiZulu |-> <<"Gwema", SP, "utshwala">>] >>]

\* targetLanguage.toLowerCase()
LanguageToLowerCase(language) ==
  CASE language = "English" -> "english"
    [] language = "Afrikaans" -> "afrikaans"
    [] language = "isiXhosa" -> "isixhosa"
    [] language = "isiZulu" -> "isizulu"
    [] OTHER -> language

getStaticTranslations ==
  [take |-> [english |-> <<"take">>, afrikaans |-> <<"vat">>,
             isiXhosa |-> <<"thabatha">>, isiZulu |-> <<"thatha">>],
   precautionsHeader |-> [english |-> <<"Precautions">>, afrikaans |-> <<"Voorsorgmaatreels">>,
                          isiXhosa |-> <<"Ukulumkela">>, isiZulu |-> <<"Ukuqaphela">>]]

\* translateOption of the backend: exact match on the english column, then
\* the column of the lower-cased language
BackendTranslateOption(englishText, targetLanguage, options) ==
  IF \E i \in 1..Len(options) : options[i].english = englishText
    THEN LET option == options[CHOOSE i \in 1..Len(options) :
                                 /\ options[i].english = englishText
                                 /\ \A j \in 1..(i - 1) : options[j].english # englishText]
             l == LanguageToLowerCase(targetLanguage)
         IN CASE l = "afrikaans" -> option.afrikaans
              [] l = "isixhosa" -> option.isiXhosa
              [] l = "isizulu" -> option.isiZulu
              [] OTHER -> englishText
    ELSE englishText

\* type.charAt(0).toUpperCase() + type.slice(1).toLowerCase()
NormalizeType(type) ==
  CASE type = "Dosage" -> "Dosage"
    [] type = "Frequency" -> "Frequency"
    [] type = "Intervals" -> "Intervals"
    [] type = "Time_of_day" -> "Time_of_day"
    [] type = "Time_of_Day" -> "Time_of_day"
    [] type = "Precautions" -> "Precautions"
    [] OTHER -> type

validTypes == {"Dosage", "Frequency", "Intervals", "Time_of_Day", "Precautions"}

\* POST /translate: the response, [success |-> FALSE] for a 4xx/5xx answer.
\* For type 'static' text is the key; otherwise it is the english term.
PostTranslate(text, key, type, targetLanguage) ==
  IF text = <<>> \/ type = "" \/ targetLanguage = ""
    THEN [success |-> FALSE, translatedText |-> <<>>]
  ELSE IF type = "static"
    THEN IF key \in DOMAIN getStaticTranslations
           THEN LET l == LanguageToLowerCase(targetLanguage)
                    row == getStaticTranslations[key]
                IN [success |-> TRUE,
                    translatedText |-> IF l \in DOMAIN row THEN row[l] ELSE <<key>>]
           ELSE [success |-> TRUE, translatedText |-> <<key>>]
    ELSE IF NormalizeType(type) \notin validTypes
           THEN [success |-> FALSE, translatedText |-> <<>>]
           ELSE [success |-> TRUE,
                 translatedText |-> BackendTranslateOption(text, targetLanguage, CsvData[NormalizeType(type)])]

\* one item of POST /translate/batch
PostTranslateBatchItem(text, type, targetLanguage) ==
  IF NormalizeType(type) \notin validTypes
    THEN text
    ELSE BackendTranslateOption(text, targetLanguage, CsvData[NormalizeType(type)])

\* ------------------------------------------------------------------------
\* Vocabulary lookup: utils/backendTranslationUtils.ts.  netOk says whether
\* the request reached the backend and was answered.
\* ------------------------------------------------------------------------
\* type.charAt(0).toUpperCase() + type.slice(1)
CapitalizeType(type) ==
  CASE type = "dosage" -> "Dosage"
    [] type = "frequency" -> "Frequency"
    [] type = "intervals" -> "Intervals"
    [] type = "time_of_day" -> "Time_of_day"
    [] type = "precautions" -> "Precautions"
    [] OTHER -> type

translateOption(englishText, targetLanguage, type, netOk) ==
  LET response == PostTranslate(englishText, "", CapitalizeType(type), targetLanguage)
  IN IF netOk /\ response.success THEN response.translatedText ELSE englishText

translateStatic(word, targetLanguage, netOk) ==
  LET response == PostTranslate(<<word>>, word, "static", targetLanguage)
  IN IF netOk /\ response.success THEN response.translatedText ELSE <<word>>

translatePrecautions(englishPrecautions, targetLanguage, netOk) ==
  [i \in 1..Len(englishPrecautions) |->
     IF netOk THEN PostTranslateBatchItem(englishPrecautions[i], "Precautions", targetLanguage)
     ELSE englishPrecautions[i]]

\* ------------------------------------------------------------------------
\* Composition of the generated sections (generateInstruction, formatTimeOfDay)
\* ------------------------------------------------------------------------
EmptyForm ==
  [name |-> <<>>, dosage |-> <<>>, frequency |-> <<>>, interval |-> <<>>,
   timeOfDay |-> <<>>, precautions |-> <<>>]

timeEmojis ==
  << <<"morning", SUNRISE>>, <<"afternoon", SUN>>, <<"evening", CITY>>, <<"night", NIGHTSKY>> >>

\* lowerText.includes(word): a period name is one token; 'noon' is also a
\* substring of 'afternoon'
TokenIncludes(t, word) == Lower(t) = word \/ (word = "noon" /\ Lower(t) = "afternoon")

TextIncludesWord(s, word) == \E i \in 1..Len(s) : TokenIncludes(s[i], word)

\* foundTimes.join(', ')
RECURSIVE JoinComma(_)
JoinComma(ls) ==
  IF ls = <<>> THEN <<>>
  ELSE IF Len(ls) = 1 THEN ls[1]
  ELSE ls[1] \o <<COMMA, SP>> \o JoinComma(Tail(ls))

formatTimeOfDay(timeOfDayText) ==
  LET found == SelectSeq(timeEmojis, LAMBDA e : TextIncludesWord(timeOfDayText, e[1]))
      foundTimes == [i \in 1..Len(found) |-> <<found[i][1], SP, found[i][2]>>]
  IN IF Len(foundTimes) = 0 THEN LowerText(timeOfDayText) ELSE JoinComma(foundTimes)

\* the sections generateInstruction composes from the form
ComposeSections(formData, dosageLineUserContent) ==
  [medicationName |-> Split(formData.name, COMMA)[1],
   dosageLine |-> <<INFO, SP, "Take", SP>> \o formData.dosage \o <<SP>> \o LowerText(formData.frequency) \o
                  (IF formData.interval # <<>> THEN <<SP>> \o LowerText(formData.interval) ELSE <<>>) \o <<DOT>>,
   dosageLineUserContent |-> dosageLineUserContent,
   timeOfDay |-> IF formData.timeOfDay # <<>> THEN <<CLOCK, SP>> \o formatTimeOfDay(formData.timeOfDay) ELSE <<>>,
   precautionsHeader |-> IF Len(formData.precautions) > 0 THEN <<"Precautions">> ELSE <<>>,
   precautionsList |-> [i \in 1..Len(formData.precautions) |-> <<BULLET, SP>> \o formData.precautions[i]]]

\* updatedStructure.lastGenerated.english = newInstructionContent
WithLastGenerated(updatedStructure) ==
  [updatedStructure EXCEPT !.lastGenerated.english = reconstructInstructionContent(updatedStructure)]

\* a faulty variant of UpdatedStructureFrom: the text is composed afresh and
\* the user content of currentStructure is dropped
UpdatedStructureFromScratch(formData, currentStructure) ==
  WithLastGenerated(
    [sections |-> ComposeSections(formData, <<>>),
     userContent |-> EmptyUserContent,
     lastGenerated |-> [english |-> <<>>, translated |-> <<>>]])

\* updatedStructure of generateInstruction: new sections and the user content
\* of currentStructure
UpdatedStructureFrom(formData, currentStructure) ==
  WithLastGenerated(
    [sections |-> ComposeSections(formData, currentStructure.sections.dosageLineUserContent),
     userContent |-> currentStructure.userContent,
     lastGenerated |-> [english |-> <<>>, translated |-> <<>>]])

\* currentStructure is parsed from the English text of the render the handler
\* belongs to
UpdatedStructure(formData, english) ==
  UpdatedStructureFrom(formData, parseInstructionContent(english))

\* ------------------------------------------------------------------------
\* Translation substitution (generateTranslation, the part inside try)
\* ------------------------------------------------------------------------
\* String.prototype.replace with a /.../g pattern on whole-word tokens:
\* every occurrence of p that ends at a word boundary (and starts at one when
\* leftB) is replaced
RECURSIVE ReplaceAllFrom(_, _, _, _, _)
ReplaceAllFrom(s, i, p, r, leftB) ==
  IF i > Len(s) THEN <<>>
  ELSE IF /\ OccursAt(s, p, i)
          /\ (i + Len(p) > Len(s) \/ ~IsWord(s[i + Len(p)]))
          /\ (leftB => (i = 1 \/ ~IsWord(s[i - 1])))
    THEN r \o ReplaceAllFrom(s, i + Len(p), p, r, leftB)
    ELSE <<s[i]>> \o ReplaceAllFrom(s, i + 1, p, r, leftB)

\* String.prototype.replace with new RegExp(timeWord, 'gi')
RECURSIVE ReplaceAllIgnoreCase(_, _, _)
ReplaceAllIgnoreCase(s, word, r) ==
  IF s = <<>> THEN <<>>
  ELSE (IF Lower(Head(s)) = word THEN r
        ELSE IF word = "noon" /\ Lower(Head(s)) = "afternoon"
          THEN (IF r = <<"noon">> THEN <<"afternoon">> ELSE <<"after">> \o r)
        ELSE <<Head(s)>>) \o ReplaceAllIgnoreCase(Tail(s), word, r)

CapitalizeFirst(s) == IF s = <<>> THEN s ELSE <<Capitalize(s[1])>> \o Tail(s)

\* the outcome of the lookups of one generateTranslation call: which of the
\* requests were answered
LookupNames == {"take", "precautionsHeader", "dosage", "frequency", "interval", "timeOfDay", "precautions"}

AllOk == [k \in LookupNames |-> TRUE]

translateTakeStep(text, language, ok) ==
  LET translatedTakeWord == translateStatic("take", language, ok.take)
      t1 == ReplaceAllFrom(text, 1, <<INFO, SP, "Take">>, <<INFO, SP>> \o CapitalizeFirst(translatedTakeWord), FALSE)
  IN ReplaceAllFrom(t1, 1, <<INFO, SP, "take">>, <<INFO, SP>> \o translatedTakeWord, FALSE)

translateHeaderStep(text, language, ok) ==
  ReplaceAllFrom(text, 1, <<"Precautions">>, translateStatic("precautionsHeader", language, ok.precautionsHeader), TRUE)

\* a faulty variant of translateDosageStep: every occurrence of the dosage
\* value is replaced
translateDosageEverywhere(text, language, formData, ok) ==
  IF formData.dosage # <<>>
    THEN ReplaceAllFrom(text, 1, formData.dosage,
                        translateOption(formData.dosage, language, "dosage", ok.dosage), FALSE)
    ELSE text

translateDosageStep(text, language, formData, ok) ==
  IF formData.dosage # <<>>
    THEN ReplaceFirst(text, formData.dosage, translateOption(formData.dosage, language, "dosage", ok.dosage))
    ELSE text

translateFrequencyStep(text, language, formData, ok) ==
  IF formData.frequency # <<>>
    THEN ReplaceFirst(text, LowerText(formData.frequency),
                      LowerText(translateOption(formData.frequency, language, "frequency", ok.frequency)))
    ELSE text

translateIntervalStep(text, language, formData, ok) ==
  IF formData.interval # <<>>
    THEN ReplaceFirst(text, LowerText(formData.interval),
                      LowerText(translateOption(formData.interval, language, "intervals", ok.interval)))
    ELSE text

timeWords == <<"morning", "afternoon", "evening", "night", "noon">>

RECURSIVE translateTimeWords(_, _, _, _, _)
translateTimeWords(text, language, formData, ok, i) ==
  IF i > Len(timeWords) THEN text
  ELSE translateTimeWords(
         IF TextIncludesWord(formData.timeOfDay, timeWords[i])
           THEN ReplaceAllIgnoreCase(text, timeWords[i],
                  LowerText(translateOption(<<Capitalize(timeWords[i])>>, language, "time_of_day", ok.timeOfDay)))
           ELSE text,
         language, formData, ok, i + 1)

translateTimeOfDayStep(text, language, formData, ok) ==
  IF formData.timeOfDay # <<>> THEN translateTimeWords(text, language, formData, ok, 1) ELSE text

RECURSIVE replacePrecautions(_, _, _, _)
replacePrecautions(text, precautions, translatedPrecautions, i) ==
  IF i > Len(precautions) THEN text
  ELSE replacePrecautions(
         IF translatedPrecautions[i] # <<>>
           THEN ReplaceFirst(text, precautions[i], translatedPrecautions[i])
           ELSE text,
         precautions, translatedPrecautions, i + 1)

translatePrecautionsStep(text, language, formData, ok) ==
  IF Len(formData.precautions) > 0
    THEN replacePrecautions(text, formData.precautions,
                            translatePrecautions(formData.precautions, language, ok.precautions), 1)
    ELSE text

\* the text the dosage step receives
TextBeforeDosageStep(text, language, ok) ==
  translateHeaderStep(translateTakeStep(text, language, ok), language, ok)

\* translatedText at the end of the try block
TranslatedText(text, language, formData, ok) ==
  translatePrecautionsStep(
    translateTimeOfDayStep(
      translateIntervalStep(
        translateFrequencyStep(
          translateDosageStep(TextBeforeDosageStep(text, language, ok), language, formData, ok),
          language, formData, ok),
        language, formData, ok),
      language, formData, ok),
    language, formData, ok)

\* ------------------------------------------------------------------------
\* Bounds and input values
\* ------------------------------------------------------------------------
\* user events and completions in one run of the editing session
MaxSteps == 2
\* the same for the runs that follow translation requests
MaxSyncSteps == 4
\* the same for the runs with several tabs
MaxTabSteps == 4
\* translation requests in flight at the same time
MaxPending == 2
\* tabs in the session
MaxTabs == 2
\* lines the user adds to the English text
MaxUserLines == 1
\* applications of the parser, the reassembly and the clearing in one run
MaxFnSteps == 3

NameValues == { <<"Panado", COMMA, SP, "oral">> }
DosageValues == { <<"1", SP, "tablet">>, <<"2", DOT, "5ml">> }
FrequencyValues == { <<"Daily">>, <<"Twice", SP, "daily">> }
IntervalValues == { <<"q8h">> }
TimeOfDayValues == { <<"morning">> }
PrecautionValues == { <<"Avoid", SP, "alcohol">> }
FieldNames == {"name", "dosage", "frequency", "interval", "timeOfDay"}

FieldValues(field) ==
  CASE field = "name" -> NameValues
    [] field = "dosage" -> DosageValues
    [] field = "frequency" -> FrequencyValues
    [] field = "interval" -> IntervalValues
    [] field = "timeOfDay" -> TimeOfDayValues

\* ------------------------------------------------------------------------
\* State
\* ------------------------------------------------------------------------
VARIABLES
  medicationForm,        \* useState<MedicationForm>
  instructionDisplay,    \* useState<InstructionDisplay>
  instructionStructure,  \* useState<InstructionStructure>
  translationsLoaded,    \* translationsLoaded and medicationsLoaded, set together
  patientLanguage,       \* homeLanguage of the stored patient
  medicationTabs,        \* useState<MedicationTab[]>
  nextTabId,
  localStorage,          \* the 'medicationTabs' entry; JSON of plain data reads back as written
  pending,               \* generateTranslation calls suspended in their lookups
  steps,                 \* events so far
  lastEvent              \* the last event: handler, field, tab of the render

vars == <<medicationForm, instructionDisplay, instructionStructure, translationsLoaded,
          patientLanguage, medicationTabs, nextTabId, localStorage, pending, steps, lastEvent>>

DefaultInstructions ==
  [english |-> <<>>, translated |-> Placeholder, selectedLanguage |-> "isiZulu"]

\* `Medication ${id}`
DefaultTabName(id) == <<"Medication", SP, ToString(id)>>

NewTab(id, isActive) ==
  [id |-> id, name |-> DefaultTabName(id), isActive |-> isActive,
   formData |-> EmptyForm, instructions |-> DefaultInstructions]

\* the React state one handler works on: the record a handler starts from is
\* the state of the render it was created in; its set-state calls are applied
\* in order to a copy
Cur ==
  [medicationForm |-> medicationForm, instructionDisplay |-> instructionDisplay,
   instructionStructure |-> instructionStructure, medicationTabs |-> medicationTabs,
   nextTabId |-> nextTabId, localStorage |-> localStorage, pending |-> pending]

MapTabs(tabs, F(_)) == [i \in 1..Len(tabs) |-> F(tabs[i])]

updateActiveTabData(c, st, formData, instructions) ==
  LET updatedTabs ==
        MapTabs(c.medicationTabs,
                LAMBDA tab : IF tab.isActive
                               THEN [tab EXCEPT !.formData = formData,
                                                !.instructions = instructions,
                                                !.name = IF formData.name # <<>> THEN formData.name
                                                         ELSE DefaultTabName(tab.id)]
                               ELSE tab)
  IN [st EXCEPT !.medicationTabs = updatedTabs, !.localStorage = updatedTabs]

\* generateTranslation up to its first await
generateTranslation(c, st, text, language, formData, englishInstructions) ==
  IF text = <<>> \/ language = ""
    THEN LET newInstructions == [c.instructionDisplay EXCEPT !.translated = Placeholder]
         IN updateActiveTabData(c, [st EXCEPT !.instructionDisplay = newInstructions], formData, newInstructions)
  ELSE IF ~translationsLoaded
    THEN LET newInstructions == [c.instructionDisplay EXCEPT !.translated = LoadingText]
         IN updateActiveTabData(c, [st EXCEPT !.instructionDisplay = newInstructions], formData, newInstructions)
  ELSE [st EXCEPT !.pending = Append(st.pending,
                    [text |-> text, language |-> language, formData |-> formData,
                     englishInstructions |-> englishInstructions,
                     medicationTabs |-> c.medicationTabs])]

\* generateInstruction from setInstructionStructure(updatedStructure) on
GenerateFrom(c, st, formData, updatedStructure) ==
  LET newInstructionContent == updatedStructure.lastGenerated.english
      newInstructions == [c.instructionDisplay EXCEPT !.english = newInstructionContent]
      st1 == [st EXCEPT !.instructionStructure = updatedStructure,
                        !.instructionDisplay = newInstructions]
  IN IF patientLanguage # "" /\ formData.dosage # <<>>
       THEN generateTranslation(c, st1, newInstructionContent, patientLanguage, formData, newInstructions)
       ELSE updateActiveTabData(c, st1, formData, newInstructions)

\* a faulty variant of generateInstruction: the two guards on name, dosage and
\* frequency are missing
generateInstructionUnguarded(c, st, formData) ==
  GenerateFrom(c, st, formData, UpdatedStructure(formData, c.instructionDisplay.english))

\* a faulty variant of generateInstruction: the instruction is composed as
\* soon as one of name, dosage and frequency is filled in
generateInstructionOnPartial(c, st, formData) ==
  IF formData.name = <<>> /\ formData.dosage = <<>> /\ formData.frequency = <<>>
    THEN LET emptyInstructions == [c.instructionDisplay EXCEPT !.english = <<>>, !.translated = Placeholder]
         IN updateActiveTabData(c, [st EXCEPT !.instructionDisplay = emptyInstructions,
                                              !.instructionStructure = EmptyStructure],
                                formData, emptyInstructions)
  ELSE GenerateFrom(c, st, formData, UpdatedStructure(formData, c.instructionDisplay.english))

\* a faulty variant of generateInstruction: with name, dosage and frequency
\* all empty the display and the structure are left as they are
generateInstructionKeepingText(c, st, formData) ==
  IF formData.name = <<>> \/ formData.dosage = <<>> \/ formData.frequency = <<>>
    THEN st
    ELSE GenerateFrom(c, st, formData, UpdatedStructure(formData, c.instructionDisplay.english))

generateInstruction(c, st, formData) ==
  IF formData.name = <<>> /\ formData.dosage = <<>> /\ formData.frequency = <<>>
    THEN LET emptyInstructions == [c.instructionDisplay EXCEPT !.english = <<>>, !.translated = Placeholder]
         IN updateActiveTabData(c, [st EXCEPT !.instructionDisplay = emptyInstructions,
                                              !.instructionStructure = EmptyStructure],
                                formData, emptyInstructions)
  ELSE IF formData.name = <<>> \/ formData.dosage = <<>> \/ formData.frequency = <<>>
    THEN st
  ELSE GenerateFrom(c, st, formData, UpdatedStructure(formData, c.instructionDisplay.english))

\* a faulty variant of ClearSections: blanking a section also blanks the user
\* content that follows it
ClearSectionsAndUserContent(structure, field) ==
  CASE field = "name" -> [structure EXCEPT !.sections.medicationName = <<>>,
                                           !.userContent.afterMedication = <<>>]
    [] field \in {"dosage", "frequency", "interval"} ->
         [structure EXCEPT !.sections.dosageLine = <<>>, !.userContent.afterDosage = <<>>]
    [] field = "timeOfDay" -> [structure EXCEPT !.sections.timeOfDay = <<>>,
                                                !.userContent.afterTimeOfDay = <<>>]
    [] field = "precautions" -> [structure EXCEPT !.sections.precautionsHeader = <<>>,
                                                  !.sections.precautionsList = <<>>,
                                                  !.userContent.afterPrecautions = <<>>]
    [] OTHER -> structure

\* the switch of handleFieldClearing
ClearSections(structure, field) ==
  CASE field = "name" -> [structure EXCEPT !.sections.medicationName = <<>>]
    [] field \in {"dosage", "frequency", "interval"} -> [structure EXCEPT !.sections.dosageLine = <<>>]
    [] field = "timeOfDay" -> [structure EXCEPT !.sections.timeOfDay = <<>>]
    [] field = "precautions" -> [structure EXCEPT !.sections.precautionsHeader = <<>>,
                                                  !.sections.precautionsList = <<>>]
    [] OTHER -> structure

\* handleFieldClearing from `if (needsUpdate)` on
ApplyClearing(st, needsUpdate, currentStructure, newInstructionContent) ==
  IF needsUpdate
    THEN [st EXCEPT !.instructionStructure = currentStructure,
                    !.instructionDisplay =
                       [st.instructionDisplay EXCEPT
                          !.english = newInstructionContent,
                          !.translated = IF newInstructionContent # <<>>
                                           THEN st.instructionDisplay.translated
                                           ELSE Placeholder]]
    ELSE st

\* needsUpdate is set exactly when the switch blanks a populated section
ClearParsed(st, parsed, currentStructure) ==
  ApplyClearing(st, currentStructure # parsed, currentStructure,
                reconstructInstructionContent(currentStructure))

ClearField(st, parsed, field) == ClearParsed(st, parsed, ClearSections(parsed, field))

handleFieldClearing(c, st, field) ==
  ClearField(st, parseInstructionContent(c.instructionDisplay.english), field)

\* handleMedicationChange after the clearing: the two ifs on the field
GenerateOrStore(c, st, field, newFormData) ==
  IF field \in FieldNames
    THEN generateInstruction(c, st, newFormData)
    ELSE updateActiveTabData(c, st, newFormData, c.instructionDisplay)

handleMedicationChange(c, field, value) ==
  LET newFormData == [c.medicationForm EXCEPT ![field] = value]
      st0 == [c EXCEPT !.medicationForm = newFormData]
  IN GenerateOrStore(c, IF value = <<>> THEN handleFieldClearing(c, st0, field) ELSE st0,
                     field, newFormData)

\* the abbreviation tables of the page
frequencyAbbreviations(v) ==
  CASE v = <<"tid">> -> <<"Three", SP, "times", SP, "daily">>
    [] v = <<"bid">> -> <<"Twice", SP, "daily">>
    [] v = <<"qd">> -> <<"Once", SP, "daily">>
    [] OTHER -> <<>>

intervalAbbreviations(v) ==
  CASE v = <<"q8h">> -> <<"Every", SP, "8", SP, "hours">>
    [] v = <<"q12h">> -> <<"Every", SP, "12", SP, "hours">>
    [] OTHER -> <<>>

\* result.replace(new RegExp('tab', 'gi'), 'tablet') and then the same for
\* 'tabs', on one token: the pattern also matches inside 'tablet'
ExpandDosageToken(t) ==
  CASE t = "tab" -> "tablet"
    [] t = "tabs" -> "tablets"
    [] t = "tablet" -> "tabletlet"
    [] t = "tablets" -> "tabletlets"
    [] OTHER -> t

\* the same for 'm.' -> 'morning' and 'n.' -> 'night' ('p.m.' is not typed)
RECURSIVE ExpandTimeOfDay(_)
ExpandTimeOfDay(s) ==
  IF s = <<>> THEN <<>>
  ELSE IF Len(s) >= 2 /\ s[1] = "m" /\ s[2] = DOT THEN <<"morning">> \o ExpandTimeOfDay(SubSeq(s, 3, Len(s)))
  ELSE IF Len(s) >= 2 /\ s[1] = "n" /\ s[2] = DOT THEN <<"night">> \o ExpandTimeOfDay(SubSeq(s, 3, Len(s)))
  ELSE <<Head(s)>> \o ExpandTimeOfDay(Tail(s))

\* handleKeyPress with e.key === 'Enter'
Abbreviation(formData, field) ==
  LET currentValue == formData[field]
  IN CASE field = "dosage" -> [i \in 1..Len(currentValue) |-> ExpandDosageToken(currentValue[i])]
       [] field = "frequency" -> frequencyAbbreviations(LowerText(currentValue))
       [] field = "interval" -> intervalAbbreviations(LowerText(currentValue))
       [] field = "timeOfDay" -> ExpandTimeOfDay(currentValue)
       [] OTHER -> <<>>

handleKeyPress(c, field) ==
  LET abbreviation == Abbreviation(c.medicationForm, field)
      newFormData == [c.medicationForm EXCEPT ![field] = abbreviation]
  IN IF abbreviation # <<>>
       THEN generateInstruction(c, [c EXCEPT !.medicationForm = newFormData], newFormData)
       ELSE c

selectPrecaution(c, precaution) ==
  LET newFormData == [c.medicationForm EXCEPT !.precautions = Append(c.medicationForm.precautions, precaution)]
  IN generateInstruction(c, [c EXCEPT !.medicationForm = newFormData], newFormData)

\* onChange of the precautions text area
precautionsTextareaChange(c, lines) ==
  [c EXCEPT !.medicationForm.precautions = SelectSeq(lines, LAMBDA line : Trim(line) # <<>>)]

\* ------------------------------------------------------------------------
\* Direct edits of the instruction text
\* ------------------------------------------------------------------------
\* newTranslatedContent || 'This will have the translated instructions'
OrPlaceholder(content) == IF content # <<>> THEN content ELSE Placeholder

\* translatedStructure of syncToTranslatedInstructions
MirrorUserContent(englishStructure, currentTranslatedStructure) ==
  [sections |-> [currentTranslatedStructure.sections EXCEPT
                   !.dosageLineUserContent = englishStructure.sections.dosageLineUserContent],
   userContent |-> englishStructure.userContent,
   lastGenerated |-> currentTranslatedStructure.lastGenerated]

syncToTranslatedInstructions(c, st, englishContent) ==
  [st EXCEPT !.instructionDisplay.translated =
     OrPlaceholder(reconstructInstructionContent(
       MirrorUserContent(parseInstructionContent(englishContent),
                         parseInstructionContent(c.instructionDisplay.translated))))]

\* a || b on strings and on arrays tested by length
OrElse(a, b) == IF a # <<>> THEN a ELSE b

\* the functional update of setInstructionStructure in handleInstructionChange
MergeStructure(prev, newStructure) ==
  [prev EXCEPT
     !.userContent = newStructure.userContent,
     !.sections.medicationName = OrElse(newStructure.sections.medicationName, prev.sections.medicationName),
     !.sections.dosageLine = OrElse(newStructure.sections.dosageLine, prev.sections.dosageLine),
     !.sections.timeOfDay = OrElse(newStructure.sections.timeOfDay, prev.sections.timeOfDay),
     !.sections.precautionsHeader = OrElse(newStructure.sections.precautionsHeader, prev.sections.precautionsHeader),
     !.sections.precautionsList = OrElse(newStructure.sections.precautionsList, prev.sections.precautionsList)]

handleInstructionChangeDisplayOnly(c, type, newContent) ==
  IF type = "english"
    THEN updateActiveTabData(c,
           syncToTranslatedInstructions(c,
             [c EXCEPT !.instructionStructure =
                          MergeStructure(c.instructionStructure, parseInstructionContent(newContent)),
                       !.instructionDisplay.english = newContent],
             newContent),
           c.medicationForm,
           [c.instructionDisplay EXCEPT ![type] = newContent])
    ELSE [c EXCEPT !.instructionDisplay.translated = newContent]

handleInstructionChange(c, type, newContent) ==
  updateActiveTabData(c,
    IF type = "english"
      THEN syncToTranslatedInstructions(c,
             [c EXCEPT !.instructionStructure =
                          MergeStructure(c.instructionStructure, parseInstructionContent(newContent)),
                       !.instructionDisplay.english = newContent],
             newContent)
      ELSE [c EXCEPT !.instructionDisplay.translated = newContent],
    c.medicationForm,
    [c.instructionDisplay EXCEPT ![type] = newContent])

\* the texts one edit of a text box can produce from its content: a line
\* added at any line position, a user line or the time-of-day line removed,
\* or words added after the period of the dosage sentence
UserLine == <<"Note">>

\* a user line that repeats the dosage value of the form
DosageNote(formData) == <<"Note", SP>> \o formData.dosage

LinesOf(content) == IF content = <<>> THEN <<>> ELSE Split(content, NL)

IsUserLine(line) == line # <<>> /\ line[1] = "Note"

UserLineCount(content) == Len(SelectSeq(LinesOf(content), IsUserLine))

InsertLine(content, k, line) ==
  LET ls == LinesOf(content)
  IN JoinLines(SubSeq(ls, 1, k - 1) \o <<line>> \o SubSeq(ls, k, Len(ls)))

DeleteLine(content, k) ==
  LET ls == LinesOf(content)
  IN JoinLines(SubSeq(ls, 1, k - 1) \o SubSeq(ls, k + 1, Len(ls)))

AppendInline(content, k, words) ==
  LET ls == LinesOf(content)
  IN JoinLines([ls EXCEPT ![k] = ls[k] \o <<SP>> \o words])

EditedTexts(content) ==
  LET n == Len(LinesOf(content))
  IN {InsertLine(content, k, UserLine) : k \in 1..(n + 1)}
       \cup {DeleteLine(content, k) :
               k \in {j \in 1..n : IsUserLine(LinesOf(content)[j])
                                    \/ StartsWith(LinesOf(content)[j], <<CLOCK>>)}}
       \cup {AppendInline(content, k, <<"Note">>) :
               k \in {j \in 1..n : LinesOf(content)[j] # <<>> /\ LinesOf(content)[j][1] = INFO
                                   /\ EndsWith(LinesOf(content)[j], <<DOT>>)}}

\* ------------------------------------------------------------------------
\* Tabs
\* ------------------------------------------------------------------------
FilterTabs(tabs, tabId) == SelectSeq(tabs, LAMBDA tab : tab.id # tabId)

HasTab(tabs, tabId) == \E i \in 1..Len(tabs) : tabs[i].id = tabId

FindTab(tabs, tabId) == tabs[CHOOSE i \in 1..Len(tabs) : tabs[i].id = tabId /\ \A j \in 1..(i - 1) : tabs[j].id # tabId]

handleAddAnotherMedication(c) ==
  LET st1 == updateActiveTabData(c, c, c.medicationForm, c.instructionDisplay)
      newTab == NewTab(c.nextTabId, FALSE)
      \* setMedicationTabs(prev => ...) is overwritten by the next setMedicationTabs
      updatedTabs == Append(c.medicationTabs, newTab)
  IN [st1 EXCEPT !.medicationTabs = updatedTabs,
                 !.nextTabId = c.nextTabId + 1,
                 !.localStorage = updatedTabs,
                 !.medicationForm = EmptyForm,
                 !.instructionDisplay = DefaultInstructions]

\* the deletion without the guard on the only tab
handleDeleteMedicationOfOnlyTab(c, tabId) ==
  IF ~HasTab(c.medicationTabs, tabId)
    THEN c
    ELSE [c EXCEPT !.medicationTabs = FilterTabs(c.medicationTabs, tabId),
                   !.localStorage = FilterTabs(c.medicationTabs, tabId)]

handleDeleteMedication(c, tabId) ==
  IF Len(c.medicationTabs) <= 1 \/ ~HasTab(c.medicationTabs, tabId)
    THEN c
    ELSE LET tabToDelete == FindTab(c.medicationTabs, tabId)
             remainingTabs == FilterTabs(c.medicationTabs, tabId)
             \* the functional update that marks the new active tab is
             \* overwritten by setMedicationTabs(updatedTabs) below
             st1 == IF tabToDelete.isActive /\ Len(remainingTabs) > 0
                      THEN [c EXCEPT !.medicationForm = remainingTabs[1].formData,
                                     !.instructionDisplay = remainingTabs[1].instructions]
                      ELSE c
             updatedTabs == FilterTabs(c.medicationTabs, tabId)
         IN [st1 EXCEPT !.medicationTabs = updatedTabs, !.localStorage = updatedTabs]

handleTabClick(c, tabId) ==
  LET st1 == updateActiveTabData(c, c, c.medicationForm, c.instructionDisplay)
  IN IF ~HasTab(c.medicationTabs, tabId)
       THEN st1
       ELSE LET targetTab == FindTab(c.medicationTabs, tabId)
                updatedTabs == MapTabs(c.medicationTabs, LAMBDA tab : [tab EXCEPT !.isActive = (tab.id = tabId)])
            IN [st1 EXCEPT !.medicationTabs = updatedTabs,
                           !.localStorage = updatedTabs,
                           !.medicationForm = targetTab.formData,
                           !.instructionDisplay = targetTab.instructions]

\* ------------------------------------------------------------------------
\* generateTranslation after its last await: r is the suspended call, ok the
\* outcome of its lookups
\* ------------------------------------------------------------------------
NetOutcomes == {AllOk} \cup {[AllOk EXCEPT ![k] = FALSE] : k \in LookupNames}

RemoveAt(q, i) == SubSeq(q, 1, i - 1) \o SubSeq(q, i + 1, Len(q))

\* generateTranslation from `const newInstructions` on
ApplyTranslation(c, i, r, translatedText) ==
  LET newInstructions == [r.englishInstructions EXCEPT !.translated = translatedText,
                                                       !.selectedLanguage = r.language]
      st1 == [c EXCEPT !.pending = RemoveAt(c.pending, i),
                       !.instructionDisplay = newInstructions,
                       !.instructionStructure.lastGenerated.translated = translatedText]
  IN updateActiveTabData([c EXCEPT !.medicationTabs = r.medicationTabs], st1, r.formData, newInstructions)

translationDone(c, i, ok) ==
  ApplyTranslation(c, i, c.pending[i],
                   TranslatedText(c.pending[i].text, c.pending[i].language, c.pending[i].formData, ok))

\* ------------------------------------------------------------------------
\* Initial states: the page mounts with the patient's language and either no
\* stored tabs (createDefaultTab) or the tabs an earlier visit stored
\* ------------------------------------------------------------------------
Form1 ==
  [name |-> <<"Panado">>, dosage |-> <<"1", SP, "tablet">>, frequency |-> <<"Daily">>,
   interval |-> <<>>, timeOfDay |-> <<"morning">>, precautions |-> <<>>]

Form2 ==
  [name |-> <<"Panado">>, dosage |-> <<"2", DOT, "5ml">>, frequency |-> <<"Twice", SP, "daily">>,
   interval |-> <<>>, timeOfDay |-> <<>>, precautions |-> << <<"Avoid", SP, "alcohol">> >>]

\* the record of a tab whose English text was generated from formData
TabWithText(id, isActive, formData, language, english) ==
  [id |-> id, name |-> formData.name, isActive |-> isActive, formData |-> formData,
   instructions |->
     IF language = ""
       THEN [english |-> english, translated |-> Placeholder, selectedLanguage |-> "isiZulu"]
       ELSE [english |-> english,
             translated |-> TranslatedText(english, language, formData, AllOk),
             selectedLanguage |-> language]]

\* the record of a tab whose instruction was generated from formData with the
\* vocabulary loaded
GeneratedTab(id, isActive, formData, language) ==
  TabWithText(id, isActive, formData, language, UpdatedStructure(formData, <<>>).lastGenerated.english)

\* the same tab after the user added one line to its English text: the
\* record handleInstructionChange stores
EditedTab(tab, newContent) == [tab EXCEPT !.instructions.english = newContent]

EditedTabs(tab, lines) ==
  {EditedTab(tab, InsertLine(tab.instructions.english, k, u)) :
     k \in 1..(Len(LinesOf(tab.instructions.english)) + 1), u \in lines}

ActiveTabs(tabs) == SelectSeq(tabs, LAMBDA tab : tab.isActive)

\* the state after the mount effects, for the stored tabs and patient language
Mounted(tabs, language) ==
  /\ patientLanguage = language
  /\ medicationTabs = tabs
  /\ localStorage = tabs
  /\ nextTabId = Len(tabs) + 1
  /\ medicationForm = ActiveTabs(tabs)[1].formData
  /\ instructionDisplay = ActiveTabs(tabs)[1].instructions
  /\ instructionStructure = EmptyStructure
  /\ translationsLoaded = FALSE
  /\ pending = <<>>
  /\ steps = 0
  /\ lastEvent = [op |-> "mount", field |-> "", tab |-> 0]

\* no stored tabs, or one tab stored by an earlier visit
StoredSessions(language) ==
  { <<NewTab(1, TRUE)>>, <<GeneratedTab(1, TRUE, Form1, language)>> }

\* one tab stored after the user added a line to its English text
EditedSessions(language, lines) ==
  { <<tab>> : tab \in EditedTabs(GeneratedTab(1, TRUE, Form1, language), lines) }

\* one tab stored after the user typed a line into the English text of an
\* empty medication
NotedSessions == { <<EditedTab(NewTab(1, TRUE), UserLine)>> }

Init ==
  \/ \E tabs \in StoredSessions("") \cup NotedSessions : Mounted(tabs, "")
  \/ \E tabs \in StoredSessions("isiZulu") \cup EditedSessions("isiZulu", {UserLine}) : Mounted(tabs, "isiZulu")

\* ------------------------------------------------------------------------
\* Actions
\* ------------------------------------------------------------------------
\* the id of the tab marked active, 0 when none is
ActiveId(tabs) == IF ActiveTabs(tabs) = <<>> THEN 0 ELSE ActiveTabs(tabs)[1].id

\* the state a handler leaves, with the event that produced it: the handler,
\* the field it was given and the tab its render showed as active
Commit(st, op, field, tab) ==
  /\ medicationForm' = st.medicationForm
  /\ instructionDisplay' = st.instructionDisplay
  /\ instructionStructure' = st.instructionStructure
  /\ medicationTabs' = st.medicationTabs
  /\ nextTabId' = st.nextTabId
  /\ localStorage' = st.localStorage
  /\ pending' = st.pending
  /\ steps' = steps + 1
  /\ lastEvent' = [op |-> op, field |-> field, tab |-> tab]
  /\ UNCHANGED <<translationsLoaded, patientLanguage>>

\* loadData of the mount effect resolves
LoadData ==
  /\ ~translationsLoaded
  /\ translationsLoaded' = TRUE
  /\ lastEvent' = [op |-> "loadData", field |-> "", tab |-> 0]
  /\ UNCHANGED <<medicationForm, instructionDisplay, instructionStructure, patientLanguage,
                 medicationTabs, nextTabId, localStorage, pending, steps>>

HandleMedicationChange(field, value) ==
  /\ Len(pending) < MaxPending
  \* the clear button is rendered for a field that has a value, and an input
  \* reports an empty value only when it had one
  /\ value = <<>> => medicationForm[field] # <<>>
  /\ Commit(handleMedicationChange(Cur, field, value), "change", field, ActiveId(medicationTabs))

HandleKeyPress(field) ==
  /\ Len(pending) < MaxPending
  /\ Commit(handleKeyPress(Cur, field), "enter", field, ActiveId(medicationTabs))

SelectPrecaution(precaution) ==
  /\ Len(pending) < MaxPending
  /\ \A i \in 1..Len(medicationForm.precautions) : medicationForm.precautions[i] # precaution
  /\ Commit(selectPrecaution(Cur, precaution), "selectPrecaution", "precautions", ActiveId(medicationTabs))

PrecautionsTextareaChange(lines) ==
  /\ lines # medicationForm.precautions
  /\ Commit(precautionsTextareaChange(Cur, lines), "textarea", "precautions", ActiveId(medicationTabs))

EditEnglish(newContent) ==
  /\ UserLineCount(newContent) <= MaxUserLines
  /\ Commit(handleInstructionChange(Cur, "english", newContent), "editEnglish", "", ActiveId(medicationTabs))

EditTranslated(newContent) ==
  /\ UserLineCount(newContent) <= MaxUserLines
  /\ Commit(handleInstructionChange(Cur, "translated", newContent), "editTranslated", "", ActiveId(medicationTabs))

HandleAddAnotherMedication ==
  /\ Len(medicationTabs) < MaxTabs
  /\ Commit(handleAddAnotherMedication(Cur), "add", "", ActiveId(medicationTabs))

HandleDeleteMedication(tabId) ==
  /\ HasTab(medicationTabs, tabId)
  /\ Commit(handleDeleteMedication(Cur, tabId), "delete", "", ActiveId(medicationTabs))

HandleTabClick(tabId) ==
  /\ HasTab(medicationTabs, tabId)
  /\ Commit(handleTabClick(Cur, tabId), "click", "", ActiveId(medicationTabs))

\* the lookups a suspended call makes
LookupsMade(r) ==
  {"take", "precautionsHeader"}
    \cup (IF r.formData.dosage # <<>> THEN {"dosage"} ELSE {})
    \cup (IF r.formData.frequency # <<>> THEN {"frequency"} ELSE {})
    \cup (IF r.formData.interval # <<>> THEN {"interval"} ELSE {})
    \cup (IF \E i \in 1..Len(timeWords) : TextIncludesWord(r.formData.timeOfDay, timeWords[i])
            THEN {"timeOfDay"} ELSE {})
    \cup (IF Len(r.formData.precautions) > 0 THEN {"precautions"} ELSE {})

\* the lookup of the call that got no answer, "" when all were answered
Unanswered(r, ok) ==
  IF \E k \in LookupsMade(r) : ~ok[k] THEN CHOOSE k \in LookupsMade(r) : ~ok[k] ELSE ""

TranslationDone(i, ok) ==
  /\ i \in 1..Len(pending)
  /\ \A k \in LookupNames : ~ok[k] => k \in LookupsMade(pending[i])
  /\ Commit(translationDone(Cur, i, ok), "translationDone", Unanswered(pending[i], ok),
            ActiveId(pending[i].medicationTabs))

\* the editing session of one tab
Next ==
  \/ LoadData
  \/ steps < MaxSteps /\ \E field \in FieldNames : \E value \in FieldValues(field) \cup {<<>>} :
                           HandleMedicationChange(field, value)
  \/ steps < MaxSteps /\ \E field \in FieldNames :
                           \* Enter with nothing to expand only moves the focus
                           Abbreviation(medicationForm, field) # <<>> /\ HandleKeyPress(field)
  \/ steps < MaxSteps /\ \E precaution \in PrecautionValues : SelectPrecaution(precaution)
  \/ steps < MaxSteps /\ \E lines \in {<<>>} \cup {<<p>> : p \in PrecautionValues} :
                           PrecautionsTextareaChange(lines)
  \/ steps < MaxSteps /\ \E newContent \in EditedTexts(instructionDisplay.english) :
                           EditEnglish(newContent)
  \/ steps < MaxSteps /\ \E k \in {1, Len(LinesOf(instructionDisplay.translated)) + 1} :
                           EditTranslated(InsertLine(instructionDisplay.translated, k, UserLine))
  \/ steps < MaxSteps /\ \E i \in 1..MaxPending : TranslationDone(i, AllOk)

Spec == Init /\ [][Next]_vars

\* ------------------------------------------------------------------------
\* Properties of the editing session
\* ------------------------------------------------------------------------
AllEmpty(formData) == formData.name = <<>> /\ formData.dosage = <<>> /\ formData.frequency = <<>>

Complete(formData) == formData.name # <<>> /\ formData.dosage # <<>> /\ formData.frequency # <<>>

EmptyDisplay(display) == display.english = <<>> /\ display.translated = Placeholder

\* this step is a structured-field edit that ran generateInstruction
FieldEditStep ==
  \/ lastEvent'.op \in {"change", "selectPrecaution"}
  \/ lastEvent'.op = "enter" /\ Abbreviation(medicationForm, lastEvent'.field) # <<>>

\* the text generateInstruction composed in this step
Regenerated == instructionStructure'.lastGenerated.english

CountLine(content, line) == Len(SelectSeq(LinesOf(content), LAMBDA l : l = line))

UserLinesIn(content) == {LinesOf(content)[k] : k \in {j \in 1..Len(LinesOf(content)) : IsUserLine(LinesOf(content)[j])}}

\* C1: a structured-field edit made with name, dosage and frequency non-empty
\* regenerates an English text that contains every user-authored line of the
\* text it started from as often as that text did (once for a line written
\* once: none lost, none duplicated), wherever the user placed the line.
C1_UserLinesSurviveRegeneration ==
  [][(FieldEditStep /\ Complete(medicationForm'))
       => \A u \in UserLinesIn(instructionDisplay.english) :
            CountLine(Regenerated, u) = CountLine(instructionDisplay.english, u)]_vars

\* lines k, k+1, k+2 of content are the dosage line, the user line and the
\* time-of-day line
BetweenDosageAndTime(content, dosageLine, u, timeLine) ==
  \E k \in 1..(Len(LinesOf(content)) - 2) :
    /\ LinesOf(content)[k] = dosageLine
    /\ LinesOf(content)[k + 1] = u
    /\ LinesOf(content)[k + 2] = timeLine

\* content is the text generated from formData with the line u added between
\* the dosage line and the time-of-day line
GeneratedWithLineAfterDosage(content, formData, u) ==
  /\ formData.timeOfDay # <<>>
  /\ parseInstructionContent(content).sections = ComposeSections(formData, <<>>)
  /\ BetweenDosageAndTime(content, ComposeSections(formData, <<>>).dosageLine, u,
                          ComposeSections(formData, <<>>).timeOfDay)

C5_GuardKeepsEmptyState ==
  [][(/\ lastEvent'.op \in {"change", "selectPrecaution", "enter"}
      /\ AllEmpty(medicationForm')
      /\ EmptyDisplay(instructionDisplay))
       => EmptyDisplay(instructionDisplay')]_vars

C5_Witness ==
  /\ lastEvent.op \in {"change", "enter"}
  /\ lastEvent.field \in {"interval", "timeOfDay"}
  /\ AllEmpty(medicationForm)
  /\ medicationForm.interval # <<>>
  /\ medicationForm.timeOfDay # <<>>
  /\ EmptyDisplay(instructionDisplay)

StoredActive(tabs) == ActiveTabs(tabs)[1]

\* C9: a field edit that completes the required set while the vocabulary is
\* not loaded and a patient language is set leaves the translated display on
\* the loading indicator and the English display, and the English text stored
\* for the active tab, on the newly composed text.
C9_LoadingKeepsEnglishCurrent ==
  [][(/\ FieldEditStep
      /\ ~Complete(medicationForm) /\ Complete(medicationForm')
      /\ ~translationsLoaded /\ patientLanguage # "")
       => /\ instructionDisplay'.translated = LoadingText
          /\ instructionDisplay'.english = Regenerated
          /\ StoredActive(medicationTabs').instructions.english = Regenerated
          /\ StoredActive(localStorage').instructions.english = Regenerated]_vars

\* ------------------------------------------------------------------------
\* The parser, the reassembly and the clearing on their own: the structure is
\* drawn from the structures with consistent sections, and each action applies
\* one of the three to the state
\* ------------------------------------------------------------------------
UserSlotValues == { <<>>, UserLine }

DosageLines ==
  { ComposeSections(Form1, <<>>).dosageLine, ComposeSections(Form2, <<>>).dosageLine }

TimeOfDayLines == { <<>>, ComposeSections(Form1, <<>>).timeOfDay }

PrecautionSections == { EmptySections, ComposeSections(Form2, <<>>) }

ConsistentStructures ==
  { [sections |-> [medicationName |-> <<"Panado">>, dosageLine |-> d, dosageLineUserContent |-> du,
                   timeOfDay |-> t, precautionsHeader |-> p.precautionsHeader,
                   precautionsList |-> p.precautionsList],
     userContent |-> [beforeMedication |-> u[1], afterMedication |-> u[2], afterDosage |-> u[3],
                      afterTimeOfDay |-> u[4], afterPrecautions |-> u[5]],
     lastGenerated |-> [english |-> <<>>, translated |-> <<>>]] :
      d \in DosageLines, du \in UserSlotValues, t \in TimeOfDayLines, p \in PrecautionSections,
      u \in [1..5 -> UserSlotValues] }

InitFn ==
  /\ instructionStructure \in ConsistentStructures
  /\ instructionDisplay = DefaultInstructions
  /\ medicationForm = EmptyForm
  /\ patientLanguage = ""
  /\ translationsLoaded = FALSE
  /\ medicationTabs = <<NewTab(1, TRUE)>>
  /\ localStorage = <<NewTab(1, TRUE)>>
  /\ nextTabId = 2
  /\ pending = <<>>
  /\ steps = 0
  /\ lastEvent = [op |-> "mount", field |-> "", tab |-> 0]

\* reconstructInstructionContent applied to the structure
Reassemble ==
  /\ steps < MaxFnSteps
  /\ Commit([Cur EXCEPT !.instructionDisplay.english = reconstructInstructionContent(instructionStructure)],
            "reconstruct", "", 1)

\* parseInstructionContent applied to the English text
Parse ==
  /\ steps < MaxFnSteps
  /\ lastEvent.op # "mount"
  /\ Commit([Cur EXCEPT !.instructionStructure = parseInstructionContent(instructionDisplay.english)],
            "parse", "", 1)

\* handleFieldClearing applied to the English text
FieldClearing(field) ==
  /\ steps < MaxFnSteps
  /\ lastEvent.op # "mount"
  /\ Commit(handleFieldClearing(Cur, Cur, field), "clear", field, 1)

NextFn ==
  \/ Reassemble
  \/ Parse
  \/ \E field \in FieldNames \cup {"precautions"} : FieldClearing(field)

SpecFn == InitFn /\ [][NextFn]_vars

\* ------------------------------------------------------------------------
\* Properties of the parser, the reassembly and the clearing
\* ------------------------------------------------------------------------
SectionNames == DOMAIN EmptySections

UserSlotNames == DOMAIN EmptyUserContent

\* every section is populated and has the form the parser recognises
ConsistentSections(structure) ==
  /\ Trim(structure.sections.medicationName) # <<>>
  /\ StartsWith(structure.sections.dosageLine, <<INFO>>)
  /\ StartsWith(structure.sections.timeOfDay, <<CLOCK>>)
  /\ IsHeaderLine(structure.sections.precautionsHeader)
  /\ Len(structure.sections.precautionsList) > 0
  /\ \A i \in 1..Len(structure.sections.precautionsList) :
       StartsWith(structure.sections.precautionsList[i], <<BULLET>>)

\* a user-content slot without the line feeds at its ends
RECURSIVE StripNL(_)
StripNL(slot) ==
  IF slot # <<>> /\ Head(slot) = NL THEN StripNL(Tail(slot))
  ELSE IF slot # <<>> /\ slot[Len(slot)] = NL THEN StripNL(SubSeq(slot, 1, Len(slot) - 1))
  ELSE slot

SameUpToBlankLineJoins(a, b) ==
  /\ a.sections = b.sections
  /\ \A k \in UserSlotNames : StripNL(a.userContent[k]) = StripNL(b.userContent[k])

\* C3: for a structure s with consistent sections, parsing the text
\* reconstructed from s gives s back in every section and every user-content
\* slot, up to line feeds at the ends of the slots.
C3_RoundTrip ==
  [][(/\ lastEvent'.op = "parse"
      /\ ConsistentSections(instructionStructure)
      /\ instructionDisplay.english = reconstructInstructionContent(instructionStructure))
       => SameUpToBlankLineJoins(instructionStructure', instructionStructure)]_vars

\* the sections the clearing of a field blanks
MappedSections(field) ==
  CASE field = "name" -> {"medicationName"}
    [] field \in {"dosage", "frequency", "interval"} -> {"dosageLine"}
    [] field = "timeOfDay" -> {"timeOfDay"}
    [] field = "precautions" -> {"precautionsHeader", "precautionsList"}

ExceptMapped(structure, field) ==
  [sections |-> [k \in SectionNames |->
                   IF k \in MappedSections(field) THEN <<>> ELSE structure.sections[k]],
   userContent |-> structure.userContent,
   lastGenerated |-> structure.lastGenerated]

AnyMappedPopulated(structure, field) ==
  \E k \in MappedSections(field) : structure.sections[k] # <<>>

SyncFields == {"dosage", "frequency"}

\* the lookups of a request are all answered, or the lookup of one edited
\* field is not
SyncOutcomes == {AllOk} \cup {[AllOk EXCEPT ![k] = FALSE] : k \in SyncFields}

\* one tab stored after the user added, at the end of its English text, a
\* line that repeats the dosage value
NotedTab(formData, language) ==
  EditedTab(GeneratedTab(1, TRUE, formData, language),
            InsertLine(GeneratedTab(1, TRUE, formData, language).instructions.english,
                       Len(LinesOf(GeneratedTab(1, TRUE, formData, language).instructions.english)) + 1,
                       DosageNote(formData)))

InitSync ==
  \E language \in {"isiZulu", "Afrikaans"} :
    \E tabs \in StoredSessions(language) \cup EditedSessions(language, {DosageNote(Form1)})
                  \cup { <<NotedTab(Form2, language)>> }
                  \* a line of the user that holds the word of the precautions header
                  \cup { <<EditedTab(GeneratedTab(1, TRUE, Form2, language),
                                      GeneratedTab(1, TRUE, Form2, language).instructions.english
                                        \o <<"Note", SP, "Precautions">>)>> } :
      /\ ActiveTabs(tabs)[1].formData # EmptyForm
      /\ Mounted(tabs, language)

NextSync ==
  \/ LoadData
  \/ steps < MaxSyncSteps /\ \E field \in SyncFields : \E value \in FieldValues(field) :
                               HandleMedicationChange(field, value)
  \/ steps < MaxSyncSteps /\ \E i \in 1..MaxPending : \E ok \in SyncOutcomes : TranslationDone(i, ok)

SpecSync == InitSync /\ [][NextSync]_vars

\* ------------------------------------------------------------------------
\* Properties of the translation requests
\* ------------------------------------------------------------------------
\* C6: once every translation request has completed, the English display is
\* the text composed at the last edit, the translated display is a
\* translation of that text for the current fields, and the tab data stored
\* for the active tab are the current fields and the current display,
\* whatever the order in which the requests completed.
C6_StaleResultDiscarded ==
  (lastEvent.op = "translationDone" /\ pending = <<>>)
    => /\ instructionDisplay.english = instructionStructure.lastGenerated.english
       /\ \E ok \in NetOutcomes :
            instructionDisplay.translated =
              TranslatedText(instructionDisplay.english, patientLanguage, medicationForm, ok)
       /\ StoredActive(medicationTabs).formData = medicationForm
       /\ StoredActive(medicationTabs).instructions = instructionDisplay
       /\ localStorage = medicationTabs

\* C8: a translation that completes after one of its lookups got no answer
\* leaves the translated display on the error text.
C8_LookupFailureShowsError ==
  [][(lastEvent'.op = "translationDone" /\ lastEvent'.field # "")
       => instructionDisplay'.translated = ErrorText]_vars

\* the term the dosage lookup of this step returned for the request r
DosageTerm(r) ==
  translateOption(r.formData.dosage, r.language, "dosage", lastEvent'.field # "dosage")

\* translated has the term at the place of the first occurrence of the dosage
\* value in the text of r, and the English value once, after it
DiffersAtFirstOnly(r, translated, term) ==
  /\ term # r.formData.dosage
  /\ CountOcc(translated, r.formData.dosage) = 1
  /\ CountOcc(translated, term) = 1
  /\ IndexOf(translated, term) = IndexOf(r.text, r.formData.dosage)
  /\ IndexOf(translated, term) < IndexOf(translated, r.formData.dosage)

\* the step completes the request pending[i], whose text has the dosage
\* value twice
CompletesTwice(i) ==
  /\ lastEvent'.op = "translationDone"
  /\ i \in 1..Len(pending)
  /\ pending' = RemoveAt(pending, i)
  /\ instructionDisplay'.english = pending[i].text
  /\ CountOcc(pending[i].text, pending[i].formData.dosage) = 2

\* C10 as stated: when the English text of a completed request contains the
\* dosage value twice, the translated text differs from it at the first
\* occurrence and only there.
C10_DiffersAtFirstOccurrence ==
  [][\A i \in 1..MaxPending :
       CompletesTwice(i)
         => DiffersAtFirstOnly(pending[i], instructionDisplay'.translated, DosageTerm(pending[i]))]_vars

\* C10 amended: when the English text of a completed request contains the
\* dosage value twice and the dosage lookup returned a term other than the
\* English value, the translated text has that term at the place of the first
\* occurrence and only there, and the second occurrence is the English value;
\* when the lookup returned the English value, both occurrences are English.
C10_DosageFirstOccurrenceOnly ==
  [][\A i \in 1..MaxPending :
       CompletesTwice(i)
         => IF DosageTerm(pending[i]) # pending[i].formData.dosage
              THEN DiffersAtFirstOnly(pending[i], instructionDisplay'.translated,
                                      DosageTerm(pending[i]))
              ELSE CountOcc(instructionDisplay'.translated, pending[i].formData.dosage) = 2]_vars

\* a translation completed, all lookups answered, for a text with the dosage
\* value in the dosage sentence and in a user line after it
C10_Witness ==
  /\ lastEvent.op = "translationDone" /\ lastEvent.field = ""
  /\ medicationForm.dosage = <<"1", SP, "tablet">>
  /\ CountOcc(instructionDisplay.english, medicationForm.dosage) = 2
  /\ CountOcc(instructionDisplay.translated, medicationForm.dosage) = 1
  /\ IndexOf(instructionDisplay.english, <<INFO>>) < IndexOf(instructionDisplay.english, <<"Note">>)
  /\ IndexOf(instructionDisplay.translated, <<INFO>>) < IndexOf(instructionDisplay.translated, medicationForm.dosage)

\* ------------------------------------------------------------------------
\* Several medications: a session with one or two stored tabs, in which the
\* pharmacist changes the frequency, adds a line to the English text, adds,
\* deletes and switches tabs, while translation requests complete
\* ------------------------------------------------------------------------
TabIds == 1..(MaxTabs + 1)

TabSessions(language) ==
  { <<GeneratedTab(1, TRUE, Form1, language)>>,
    <<GeneratedTab(1, TRUE, Form1, language), GeneratedTab(2, FALSE, Form2, language)>> }

InitTabs == \E tabs \in TabSessions("isiZulu") : Mounted(tabs, "isiZulu")

\* the English text with the user's line added at its end
WithLineAtEnd(content) == InsertLine(content, Len(LinesOf(content)) + 1, UserLine)

NextTabs ==
  \/ LoadData
  \/ steps < MaxTabSteps /\ \E value \in FieldValues("frequency") :
                              HandleMedicationChange("frequency", value)
  \/ steps < MaxTabSteps /\ EditEnglish(WithLineAtEnd(instructionDisplay.english))
  \/ steps < MaxTabSteps /\ HandleAddAnotherMedication
  \/ steps < MaxTabSteps /\ \E tabId \in TabIds : HandleDeleteMedication(tabId)
  \/ steps < MaxTabSteps /\ \E tabId \in TabIds : HandleTabClick(tabId)
  \/ steps < MaxTabSteps /\ \E i \in 1..MaxPending : TranslationDone(i, AllOk)

SpecTabs == InitTabs /\ [][NextTabs]_vars

\* ------------------------------------------------------------------------
\* Properties of the tabs
\* ------------------------------------------------------------------------
EditEvents == {"change", "editEnglish", "translationDone"}

\* every tab of before other than tabId that after still has is stored in
\* after with the formData and the instructions it has in before
OthersKept(before, after, tabId) ==
  \A i \in 1..Len(before) :
    (before[i].id # tabId /\ HasTab(after, before[i].id))
      => /\ FindTab(after, before[i].id).formData = before[i].formData
         /\ FindTab(after, before[i].id).instructions = before[i].instructions

\* C7: a field edit or a text edit made on a tab, and a translation result
\* of an edit made on that tab, leave the formData and the instructions of
\* every other tab as they were, in the tab collection and in the
\* 'medicationTabs' storage entry.
C7_TabIsolation ==
  [][lastEvent'.op \in EditEvents
       => /\ OthersKept(medicationTabs, medicationTabs', lastEvent'.tab)
          /\ OthersKept(localStorage, localStorage', lastEvent'.tab)]_vars

\* ------------------------------------------------------------------------
\* Properties of the composed text (editing session of one tab)
\* ------------------------------------------------------------------------
NonBlankLines(content) == SelectSeq(LinesOf(content), LAMBDA l : Trim(l) # <<>>)

\* the name up to its first comma
NameUpToComma(name) ==
  IF IndexOf(name, <<COMMA>>) = 0 THEN name ELSE SubSeq(name, 1, IndexOf(name, <<COMMA>>) - 1)

DosageSentence(formData) ==
  <<INFO, SP, "Take", SP>> \o formData.dosage \o <<SP>> \o LowerText(formData.frequency)
    \o (IF formData.interval = <<>> THEN <<>> ELSE <<SP>> \o LowerText(formData.interval))
    \o <<DOT>>

\* lines are, in order: the name line, the dosage sentence, a time-of-day
\* line iff timeOfDay is non-empty, and the header with one bullet line per
\* precaution iff precautions is non-empty
IsComposition(lines, formData) ==
  LET t == IF formData.timeOfDay = <<>> THEN 0 ELSE 1
      p == Len(formData.precautions)
  IN /\ Len(lines) = 2 + t + (IF p = 0 THEN 0 ELSE p + 1)
     /\ lines[1] = NameUpToComma(formData.name)
     /\ lines[2] = DosageSentence(formData)
     /\ t = 1 => StartsWith(lines[3], <<CLOCK, SP>>)
     /\ p > 0 => /\ lines[2 + t + 1] = <<"Precautions">>
                 /\ \A i \in 1..p : lines[2 + t + 1 + i] = <<BULLET, SP>> \o formData.precautions[i]

\* the English display holds no text, or the text composed from the form and
\* nothing the user added
NoPriorUserContent ==
  \/ instructionDisplay.english = <<>>
  \/ IsComposition(NonBlankLines(instructionDisplay.english), medicationForm)

\* C11: a field edit that leaves name, dosage and frequency non-empty, made
\* on a display without user content, composes an English text whose lines
\* are, in order, the name up to its first comma, the dosage sentence, the
\* time-of-day line iff timeOfDay is non-empty, and the 'Precautions' header
\* with one bullet per precaution iff precautions is non-empty.
C11_Composition ==
  [][(FieldEditStep /\ Complete(medicationForm') /\ NoPriorUserContent)
       => IsComposition(NonBlankLines(Regenerated), medicationForm')]_vars

\* ------------------------------------------------------------------------
\* Properties of the static vocabulary
\* ------------------------------------------------------------------------
\* the term of the static table for a key in the column of a language tag
StaticTerm(key, language) ==
  CASE language = "English" -> getStaticTranslations[key].english
    [] language = "Afrikaans" -> getStaticTranslations[key].afrikaans
    [] language = "isiXhosa" -> getStaticTranslations[key].isiXhosa
    [] language = "isiZulu" -> getStaticTranslations[key].isiZulu

\* C12: for each of the four language tags and each static key, the lookup the
\* portal issues and the backend answers returns that language's term of the
\* static table; a translation that completed with every lookup answered
\* shows the language's verb after the info glyph and, when the text has
\* precautions, the language's header, never the key.
C12_StaticTermsInAllLanguages ==
  /\ \A language \in {"English", "Afrikaans", "isiXhosa", "isiZulu"} : \A key \in {"take", "precautionsHeader"} :
       translateStatic(key, language, TRUE) = StaticTerm(key, language)
  /\ (lastEvent.op = "translationDone" /\ lastEvent.field = "")
       => /\ IndexOf(instructionDisplay.translated,
                     <<INFO, SP>> \o CapitalizeFirst(StaticTerm("take", instructionDisplay.selectedLanguage))) # 0
          /\ IndexOf(instructionDisplay.english, <<"Precautions">>) # 0
               => IndexOf(instructionDisplay.translated,
                          StaticTerm("precautionsHeader", instructionDisplay.selectedLanguage)) # 0
          /\ IndexOf(instructionDisplay.translated, <<"precautionsHeader">>) = 0

\* C13: once the tab collection is initialised it holds at least one tab in
\* every reachable state, in memory and in the 'medicationTabs' storage
\* entry, whatever tabs are added, deleted, switched to or edited.
C13_AtLeastOneTab ==
  /\ Len(medicationTabs) >= 1
  /\ Len(localStorage) >= 1

\* a deletion was asked for and one tab is left
C13_Witness ==
  /\ lastEvent.op = "delete"
  /\ Len(medicationTabs) = 1
  /\ Len(localStorage) = 1

\* the number of tabs marked active
ActiveCount(tabs) == Len(ActiveTabs(tabs))

\* C14: after initialisation exactly one tab of the collection is marked
\* active, after any add, delete and click, and the form and the display
\* show that tab's data.
C14_ExactlyOneActive ==
  /\ ActiveCount(medicationTabs) = 1
  /\ lastEvent.op \in {"add", "delete", "click"}
       => /\ medicationForm = StoredActive(medicationTabs).formData
          /\ instructionDisplay = StoredActive(medicationTabs).instructions

\* ------------------------------------------------------------------------
\* Properties of the stored record of the active tab
\* ------------------------------------------------------------------------
CompletedEdits ==
  {"change", "enter", "selectPrecaution", "textarea", "editEnglish", "editTranslated", "translationDone"}

\* the active tab's record in tabs holds the form and the display
HoldsCurrent(tabs) ==
  /\ ActiveCount(tabs) = 1
  /\ StoredActive(tabs).formData = medicationForm
  /\ StoredActive(tabs).instructions = instructionDisplay

\* C15: after a field edit or a text edit has completed, with no translation
\* request of it outstanding, the active tab's record in the tab collection
\* and in the 'medicationTabs' storage entry holds the current form values
\* and the displayed English and translated text.
C15_PersistedOnEveryChange ==
  (lastEvent.op \in CompletedEdits /\ pending = <<>>)
    => HoldsCurrent(medicationTabs) /\ HoldsCurrent(localStorage)

\* ------------------------------------------------------------------------
\* Properties of switching between tabs
\* ------------------------------------------------------------------------
\* a click on a tab other than the one shown
SwitchStep ==
  /\ lastEvent'.op = "click"
  /\ ActiveCount(medicationTabs) = 1
  /\ ActiveCount(medicationTabs') = 1
  /\ ActiveId(medicationTabs') # ActiveId(medicationTabs)

\* C16: a switch from tab A to tab B stores A's form fields and instruction
\* display in A's record, in whatever state A is, and shows what B's record
\* held, so that switching back to A restores what A had when it was left.
C16_SnapshotRestore ==
  [][SwitchStep
       => /\ FindTab(medicationTabs', ActiveId(medicationTabs)).formData = medicationForm
          /\ FindTab(medicationTabs', ActiveId(medicationTabs)).instructions = instructionDisplay
          /\ medicationForm' = FindTab(medicationTabs, ActiveId(medicationTabs')).formData
          /\ instructionDisplay' = FindTab(medicationTabs, ActiveId(medicationTabs')).instructions]_vars

\* ------------------------------------------------------------------------
\* Properties of adding a medication
\* ------------------------------------------------------------------------
\* the newest tab of the collection
NewestTab(tabs) == tabs[Len(tabs)]

\* C17: after 'add medication' the new tab is the active one and the
\* previously active tab is inactive; an edit made after it is stored in the
\* new tab's record, and the record of the previously active tab keeps the
\* formData and the instructions it had.
C17_AddedTabIsActive ==
  [][/\ lastEvent'.op = "add"
          => /\ Len(medicationTabs') = Len(medicationTabs) + 1
             /\ ActiveId(medicationTabs') = NewestTab(medicationTabs').id
             /\ NewestTab(medicationTabs').id # ActiveId(medicationTabs)
     /\ (lastEvent.op = "add" /\ lastEvent'.op \in {"change", "editEnglish"})
          => /\ OthersKept(medicationTabs, medicationTabs', NewestTab(medicationTabs).id)
             /\ NewestTab(medicationTabs').instructions.english = instructionDisplay'.english]_vars

\* ------------------------------------------------------------------------
\* Properties of the states of a tab (editing session of one tab)
\* ------------------------------------------------------------------------
\* some but not all of name, dosage and frequency are filled in
Partial(formData) == ~AllEmpty(formData) /\ ~Complete(formData)

\* this step is a field edit that gave its field a non-empty value
NonEmptyEditStep ==
  \/ lastEvent'.op \in {"change", "enter"} /\ medicationForm'[lastEvent'.field] # <<>>
                                            /\ medicationForm'[lastEvent'.field] # medicationForm[lastEvent'.field]
  \/ lastEvent'.op \in {"selectPrecaution", "textarea"} /\ medicationForm'.precautions # <<>>

\* C18: a field edit that sets a non-empty value and leaves some but not all
\* of name, dosage and frequency empty changes neither the English nor the
\* translated display.
C18_PartialStateFreeze ==
  [][(NonEmptyEditStep /\ Partial(medicationForm'))
       => /\ instructionDisplay'.english = instructionDisplay.english
          /\ instructionDisplay'.translated = instructionDisplay.translated]_vars

\* a non-empty value was typed into a field of a partial form whose display
\* still shows a text
C18_Witness ==
  /\ lastEvent.op = "change"
  /\ medicationForm[lastEvent.field] # <<>>
  /\ Partial(medicationForm)
  /\ instructionDisplay.english # <<>>
  /\ StoredActive(medicationTabs).formData # medicationForm

\* this step is a field edit that fills in the last empty one of name, dosage
\* and frequency
CompletingEditStep ==
  /\ FieldEditStep
  /\ ~Complete(medicationForm)
  /\ Complete(medicationForm')

\* this step is the completion, with every lookup answered, of the request
\* of the current form
AnsweredStep ==
  /\ lastEvent'.op = "translationDone"
  /\ lastEvent'.field = ""
  /\ Complete(medicationForm')
  /\ \E i \in 1..Len(pending) : pending' = RemoveAt(pending, i) /\ pending[i].formData = medicationForm

\* C19: once a field edit that fills in the last of name, dosage and
\* frequency has completed, with the vocabulary loaded, every lookup answered
\* and no request outstanding, the English display is the composed text and
\* the translated display is a substituted text, not the placeholder.
C19_GeneratedPopulatesBothPanes ==
  [][(translationsLoaded /\ pending' = <<>> /\ (CompletingEditStep \/ AnsweredStep))
       => /\ instructionDisplay'.english # <<>>
          /\ instructionDisplay'.english = instructionStructure'.lastGenerated.english
          /\ instructionDisplay'.translated \notin {<<>>, Placeholder, LoadingText, ErrorText}]_vars

\* this step clears a field that had a value and leaves name, dosage and
\* frequency all empty
EmptyingClearStep ==
  /\ lastEvent'.op = "change"
  /\ medicationForm[lastEvent'.field] # <<>>
  /\ medicationForm'[lastEvent'.field] = <<>>
  /\ AllEmpty(medicationForm')

\* C20: a field clear that leaves name, dosage and frequency all empty makes
\* the English display empty and the translated display the placeholder, and
\* leaves a structure with every section and every user-content slot empty.
C20_ClearToEmpty ==
  [][EmptyingClearStep
       => /\ EmptyDisplay(instructionDisplay')
          /\ instructionStructure'.sections = EmptyStructure.sections
          /\ instructionStructure'.userContent = EmptyStructure.userContent]_vars

\* the last filled-in field of a medication whose stored English text held a
\* line of the user was cleared, and the display is empty
C20_Witness ==
  /\ lastEvent.op = "change"
  /\ lastEvent.field \in {"name", "dosage", "frequency"}
  /\ AllEmpty(medicationForm)
  /\ EmptyDisplay(instructionDisplay)
  /\ instructionStructure = EmptyStructure
  /\ StoredActive(localStorage).instructions.english = <<>>

\* ------------------------------------------------------------------------
\* Properties of the direct edits of the instruction text
\* ------------------------------------------------------------------------
\* the generated sections of a structure
GeneratedSections(structure) == [structure.sections EXCEPT !.dosageLineUserContent = <<>>]

\* translated mirrors the user content of english around the sections of before
MirrorsUserContent(before, translated, english) ==
  /\ GeneratedSections(translated) = GeneratedSections(before)
  /\ translated.userContent = english.userContent
  /\ translated.sections.dosageLineUserContent = english.sections.dosageLineUserContent

\* C21: after a direct edit of the English text the translated text has the
\* generated sections it had before the edit, and its five user-content slots
\* and its inline trailing text are those parsed from the edited English
\* text, whatever the translated pane held before.
C21_UserContentMirrored ==
  [][lastEvent'.op = "editEnglish"
       => MirrorsUserContent(parseInstructionContent(instructionDisplay.translated),
                             parseInstructionContent(instructionDisplay'.translated),
                             parseInstructionContent(instructionDisplay'.english))]_vars

\* ------------------------------------------------------------------------
\* Properties of the parser on blank lines
\* ------------------------------------------------------------------------
\* the number of blank lines of a text
BlankLineCount(content) == Len(SelectSeq(LinesOf(content), LAMBDA l : Trim(l) = <<>>))

\* the number of blank lines the user-content slots of a structure hold
BlankLinesKept(structure) ==
  BlankLineCount(structure.userContent.beforeMedication)
    + BlankLineCount(structure.userContent.afterMedication)
    + BlankLineCount(structure.userContent.afterDosage)
    + BlankLineCount(structure.userContent.afterTimeOfDay)
    + BlankLineCount(structure.userContent.afterPrecautions)

\* C22: the parser drops no blank line: the user-content slots of the parsed
\* structure hold as many blank lines as the text has, blank lines at the
\* start of a region included.
C22_BlankLinesKept ==
  [][lastEvent'.op = "parse"
       => BlankLinesKept(instructionStructure') = BlankLineCount(instructionDisplay.english)]_vars

\* ------------------------------------------------------------------------
\* Properties of the substitution steps
\* ------------------------------------------------------------------------
\* the source terms the substitution steps of a request look for
SourceTerms(formData) ==
  ({ <<"Take">>, <<"Precautions">>, formData.dosage, LowerText(formData.frequency),
     LowerText(formData.interval) }
     \cup { <<timeWords[k]>> : k \in {j \in 1..Len(timeWords) : TextIncludesWord(formData.timeOfDay, timeWords[j])} }
     \cup { formData.precautions[k] : k \in 1..Len(formData.precautions) }) \ { <<>> }

\* C23: every substitution step replaces the first occurrence of its source
\* term only: of the occurrences a term has in the English text of a
\* completed request, all but one at most are gone from the translated text.
C23_FirstOccurrenceOnly ==
  [][\A i \in 1..MaxPending :
       (lastEvent'.op = "translationDone" /\ i <= Len(pending) /\ pending' = RemoveAt(pending, i))
         => \A term \in SourceTerms(pending[i].formData) :
              CountOcc(instructionDisplay'.translated, term) >= CountOcc(pending[i].text, term) - 1]_vars

\* ------------------------------------------------------------------------
\* Properties of the category lookup
\* ------------------------------------------------------------------------
\* the categories the portal asks for and the tables that hold them
CategoryTable ==
  [dosage |-> CsvData.Dosage, frequency |-> CsvData.Frequency, intervals |-> CsvData.Intervals,
   time_of_day |-> CsvData.Time_of_Day, precautions |-> CsvData.Precautions]

\* the term of a table row in the column of a language tag
RowTerm(row, language) ==
  CASE language = "Afrikaans" -> row.afrikaans
    [] language = "isiXhosa" -> row.isiXhosa
    [] language = "isiZulu" -> row.isiZulu

\* C24: for each of the five categories a lookup the portal issues for an
\* English term returns the table's term for the target language when the
\* table maps the term, and the term itself when it does not; a completed
\* translation of a text with a time-of-day line shows the table's word.
C24_CategoryLookup ==
  /\ \A type \in DOMAIN CategoryTable : \A language \in {"Afrikaans", "isiXhosa", "isiZulu"} :
       /\ \A k \in 1..Len(CategoryTable[type]) :
            translateOption(CategoryTable[type][k].english, language, type, TRUE)
              = RowTerm(CategoryTable[type][k], language)
       /\ translateOption(<<"unlisted">>, language, type, TRUE) = <<"unlisted">>
  /\ (/\ lastEvent.op = "translationDone" /\ lastEvent.field = ""
      /\ pending = <<>>
      /\ IndexOf(instructionDisplay.english, <<CLOCK, SP, "morning">>) # 0)
       => IndexOf(instructionDisplay.translated,
                  <<CLOCK, SP>> \o LowerText(RowTerm(CsvData.Time_of_Day[1], instructionDisplay.selectedLanguage))) # 0

\* ------------------------------------------------------------------------
\* Properties of a generated line the user deleted
\* ------------------------------------------------------------------------
HasLine(content, line) == \E k \in 1..Len(LinesOf(content)) : LinesOf(content)[k] = line

\* the time-of-day line composed from the fields
TimeOfDayLine(formData) == ComposeSections(formData, <<>>).timeOfDay

\* the last event was a direct edit of the English text, and the text lacks
\* the time-of-day line of the fields
TimeOfDayLineDeleted ==
  /\ lastEvent.op = "editEnglish"
  /\ Complete(medicationForm)
  /\ medicationForm.timeOfDay # <<>>
  /\ ~HasLine(instructionDisplay.english, TimeOfDayLine(medicationForm))

\* C25: a generated line the user deleted from the English text, with the
\* fields unchanged and name, dosage and frequency non-empty, stays absent
\* from the displayed text until the next structured-field edit, and that
\* edit puts it back into the displayed text.
C25_DeletedLineRestoredByNextEdit ==
  [][/\ (TimeOfDayLineDeleted /\ ~FieldEditStep)
          => ~HasLine(instructionDisplay'.english, TimeOfDayLine(medicationForm'))
     /\ (TimeOfDayLineDeleted /\ FieldEditStep /\ Complete(medicationForm') /\ medicationForm'.timeOfDay # <<>>)
          => HasLine(instructionDisplay'.english, TimeOfDayLine(medicationForm'))]_vars

\* ------------------------------------------------------------------------
\* Properties of a direct edit of the translated text
\* ------------------------------------------------------------------------
\* the contents the text box reports for an edit of the translated text
TranslatedEdits(content) ==
  {InsertLine(content, k, UserLine) : k \in {1, Len(LinesOf(content)) + 1}}

\* C26: a direct edit of the translated text box sets the translated display
\* and the stored translated text of the active tab to exactly the new
\* content, and leaves the English display, the structured fields and the
\* retained structure unchanged.
C26_TranslatedEditFrame ==
  [][lastEvent'.op = "editTranslated" =>
       /\ instructionDisplay'.translated \in TranslatedEdits(instructionDisplay.translated)
       /\ ActiveTabs(medicationTabs') # <<>>
       /\ ActiveTabs(medicationTabs')[1].instructions.translated = instructionDisplay'.translated
       /\ instructionDisplay'.english = instructionDisplay.english
       /\ medicationForm' = medicationForm
       /\ instructionStructure' = instructionStructure]_vars

C26_Witness ==
  /\ lastEvent.op = "editTranslated"
  /\ HasLine(instructionDisplay.translated, UserLine)
  /\ instructionDisplay.english # <<>>
  /\ ActiveTabs(medicationTabs)[1].instructions.translated = instructionDisplay.translated
  /\ instructionStructure # EmptyStructure

\* ------------------------------------------------------------------------
\* Properties of the user's text across a field clear
\* ------------------------------------------------------------------------
\* the number of lines of the text that are exactly the user's line
OwnLineCount(content) == Len(SelectSeq(LinesOf(content), LAMBDA l : l = UserLine))

\* every fragment of the user in the text before is in the text after, and
\* the user's lines that stood on their own still do
UserTextKept(before, after) ==
  /\ CountOcc(after, UserLine) >= CountOcc(before, UserLine)
  /\ OwnLineCount(after) >= OwnLineCount(before)

\* C27: a field clear never removes or merges user text in the displayed
\* English text: every user line of the five slots and the inline text after
\* the dosage sentence that was present before the clear is present after
\* it, and user lines that were separate lines are still separate lines.
C27_ClearKeepsUserText ==
  [][lastEvent'.op = "clear"
       => UserTextKept(instructionDisplay.english, instructionDisplay'.english)]_vars

\* ------------------------------------------------------------------------
\* Properties of repeated regeneration
\* ------------------------------------------------------------------------
\* the English text of a second run of the field-edit path with the same
\* field values: generateInstruction parses the text of the first run
RegeneratedAgain == UpdatedStructure(medicationForm', Regenerated).lastGenerated.english

\* C28: regeneration is idempotent: with name, dosage and frequency
\* non-empty, running the field-edit path twice with the same field values
\* yields the same English text as running it once, whatever the dosage,
\* frequency and interval values are, and the text never grows.
C28_RegenerationIdempotent ==
  [][(FieldEditStep /\ Complete(medicationForm'))
       => /\ RegeneratedAgain = Regenerated
          /\ Len(RegeneratedAgain) <= Len(Regenerated)]_vars

\* ------------------------------------------------------------------------
\* Properties of the display after a structured-field edit
\* ------------------------------------------------------------------------
BulletLines(content) == SelectSeq(LinesOf(content), LAMBDA l : StartsWith(l, <<BULLET, SP>>))

BulletsOf(formData) == [i \in 1..Len(formData.precautions) |-> <<BULLET, SP>> \o formData.precautions[i]]

\* an edit of one of the six fields, a precaution selection or an edit of
\* the precautions text area has completed
StructuredEditStep == FieldEditStep \/ lastEvent'.op = "textarea"

\* C29: immediately after any structured-field edit (a change of one of the
\* six fields, a precaution selection or an edit of the precautions text
\* area) with name, dosage and frequency non-empty, the generated sections
\* of the English text are the sections composed from the current field
\* values, and the bullet list is the current precautions in order.
C29_DisplayFollowsFields ==
  [][(StructuredEditStep /\ Complete(medicationForm'))
       => /\ GeneratedSections(parseInstructionContent(instructionDisplay'.english))
               = ComposeSections(medicationForm', <<>>)
          /\ BulletLines(instructionDisplay'.english) = BulletsOf(medicationForm')]_vars

\* ------------------------------------------------------------------------
\* The page with its asynchronous work completing: the data load started on
\* mount settles (its catch branch sets the flags too), and every awaited
\* translation request settles. Nothing obliges the user to edit.
\* A completion raises steps, so it cannot occur infinitely often, and weak
\* fairness of the completions is that they are disabled infinitely often:
\* no request is left waiting while a completion is possible.
\* ------------------------------------------------------------------------
RequestsSettle == []<>(pending = <<>> \/ steps >= MaxSteps)

SpecLive == Spec /\ WF_vars(LoadData) /\ RequestsSettle

\* the translated display shows the loading indicator
LoadingShown == patientLanguage # "" /\ instructionDisplay.translated = LoadingText

\* C30: the loading indicator is transient: when the translated display
\* shows "Loading..." because the data was not loaded at the request, then
\* with the load completing the translated display is eventually replaced
\* without any further user edit (steps counts the edits).
C30_LoadingTransient ==
  \A n \in 0..MaxSteps : (LoadingShown /\ steps = n) ~> (~LoadingShown \/ steps # n)

====
